---- MODULE Spec2Model ----
(***************************************************************************)
(* The mquery worker agent (src/src/daemon.py): the dispatcher loop, the   *)
(* SEARCH handler and the YARA handler of a group of agents working on one *)
(* job, one atomic step per store or backend call, and the RELOAD branch   *)
(* of the dispatcher.  The job/queue store (db.Database) and the index     *)
(* backend (lib.ursadb.UrsaDb) are not part of src/; their operations      *)
(* follow the contracts of spec.md section 6.                              *)
(***************************************************************************)
EXTENDS Integers, Sequences, FiniteSets, Bags, TLC

\* ------------------------------------------------------------------ bounds
NumAgents == 2
MaxFiles == 11
SmallFiles == 1
MaxTaken == 510
MaxQuarter == 12
MaxVersion == 2
NumPlugins == 2

\* ------------------------------------------------------- program constants
MIN_BATCH_SIZE == 10
MAX_BATCH_SIZE == 500

Agents == 1..NumAgents

\* The topologies the backend may report: the file_count of each dataset.
Topologies ==
    {<<n>> : n \in {0, SmallFiles, MIN_BATCH_SIZE - 1, MIN_BATCH_SIZE, MaxFiles}}
        \cup {<<0, SmallFiles>>, <<SmallFiles, 0>>, <<SmallFiles, SmallFiles>>,
              <<0, SmallFiles, 0>>}

VARIABLES
    job,                \* the job's hash in the store
    datasets_remaining, \* the group's datasets yet to search, for the job
    matches,            \* the job's Match records, in append order
    queue,              \* the group's work queue: a bag of tasks
    topology,           \* backend: file_count of each dataset
    iterators,          \* backend: the iterators minted by query, by handle
    ag,                 \* each agent's position and locals
    scans,              \* history: the agents that ran rule.match on each file
    finish_log,         \* history: the agent_finish_job calls, in order
    config_version,     \* store: the plugin config version
    plugin_config_version, \* each agent's cached plugin config version
    reload_requests,    \* store: the versions reload_configuration was given
    registrations,      \* store: the register_active_agent calls of each agent
    yara_cache          \* the agents whose compile_yara cache holds the job's rule

reload_vars ==
    <<config_version, plugin_config_version, reload_requests, registrations>>

vars == <<job, datasets_remaining, matches, queue, topology, iterators, ag,
          scans, finish_log, config_version, plugin_config_version,
          reload_requests, registrations, yara_cache>>

Min(x, y) == IF x <= y THEN x ELSE y
Max(x, y) == IF x >= y THEN x ELSE y

\* The candidate files of a topology: file i of dataset d is <<d, i>>.
FilesOf(topo) == UNION {{<<d, i>> : i \in 1..topo[d]} : d \in DOMAIN topo}

final_statuses == {"cancelled", "failed", "done"}

SearchTask == [type |-> "SEARCH", iterator |-> 0]
YaraTask(it) == [type |-> "YARA", iterator |-> it]

IdleAgent ==
    [pc |-> "idle", iterator |-> 0, dataset |-> 0, file_count |-> 0,
     batch |-> 0, files |-> <<>>, iterator_empty |-> FALSE, i |-> 0, num_matches |-> 0,
     error |-> "", job_status |-> "", datasets |-> <<>>]

\* rule.match(sample): the files the job's rule matches, and the files on
\* which the engine raises yara.Error or the open raises FileNotFoundError.
FileMatches(f) == f[2] % 4 = 1
FileBroken(f) == f[2] % 4 = 3

\* ------------------------------------------------------------------- store
\* Mutant: the initialisation is not idempotent, it resets the status and the
\* datasets on every call.
init_job_datasets_unguarded(ds) ==
    /\ job' = [job EXCEPT !.status = "processing"]
    /\ datasets_remaining' = ds

\* init_job_datasets(group, id, datasets): idempotent, new -> processing.
init_job_datasets(ds) ==
    IF job.status = "new"
    THEN /\ job' = [job EXCEPT !.status = "processing"]
         /\ datasets_remaining' = ds
    ELSE UNCHANGED <<job, datasets_remaining>>

\* get_next_search_dataset(group, id): atomically pops one dataset name, or
\* returns none (0).
NextDataset == IF datasets_remaining = <<>> THEN 0 ELSE Head(datasets_remaining)

get_next_search_dataset ==
    datasets_remaining' =
        IF datasets_remaining = <<>> THEN <<>> ELSE Tail(datasets_remaining)

\* update_job_files(id, count): atomic total_files += count.
update_job_files(count) ==
    job' = [job EXCEPT !.total_files = @ + count]

\* agent_start_job(group, id, iterator): enqueue a YARA task, count the agent.
agent_start_job(it) ==
    /\ queue' = queue (+) SetToBag({YaraTask(it)})
    /\ job' = [job EXCEPT !.active_agents = @ + 1]

\* agent_continue_search(group, id): enqueue a SEARCH task.
agent_continue_search ==
    queue' = queue (+) SetToBag({SearchTask})

\* job_start_work(id, n): atomic files_in_progress += n.
job_start_work(n) ==
    job' = [job EXCEPT !.files_in_progress = @ + n]

\* job_update_work(id, n, matches).
job_update_work(n, m) ==
    job' = [job EXCEPT !.files_in_progress = @ - n,
                       !.files_processed = @ + n,
                       !.num_matches = @ + m]

\* Mutant: the append does not look at the job's status.
add_match_unguarded(f) == matches' = Append(matches, f)

\* add_match(id, MatchInfo): append; no-op if the job is terminal.
add_match(f) ==
    matches' = IF job.status \in final_statuses THEN matches
               ELSE Append(matches, f)

\* agent_finish_job(id): decrement the active-agent count; if zero and
\* files_processed == total_files, set done.
JobAfterFinish(j) ==
    LET n == j.active_agents - 1
    IN  IF n = 0 /\ j.files_processed = j.total_files
        THEN [j EXCEPT !.active_agents = n, !.status = "done"]
        ELSE [j EXCEPT !.active_agents = n]

agent_finish_job(a) ==
    /\ job' = JobAfterFinish(job)
    /\ finish_log' = Append(finish_log,
           [agent |-> a,
            flipped |-> job.status = "processing" /\ job'.status = "done"])

\* fail_job(id, msg): set status = failed, record msg.
fail_job(msg) ==
    job' = [job EXCEPT !.status = "failed", !.error = msg]

\* get_plugin_config_version(): the stored version.
get_plugin_config_version == config_version

\* reload_configuration(v): marks a reload in flight for the agents at v.
reload_configuration(v) ==
    reload_requests' = reload_requests \cup {v}

\* register_active_agent(group, url, spec, active): upserts the agent's
\* record. The spec an agent passes is the static plugin registry, the same on
\* every call, so no new plugin config version is published.
register_active_agent(a) ==
    /\ registrations' = [registrations EXCEPT ![a] = @ + 1]
    /\ UNCHANGED config_version

\* ----------------------------------------------------------------- backend
\* query(qstr, taint, dataset): mints an iterator over the dataset's candidate
\* files; its handle is its index, its file_count the dataset's.
query(dataset) ==
    iterators' = Append(iterators, [dataset |-> dataset, pos |-> 0])

\* pop(iterator, n): the next n files of the iterator, and whether it is
\* drained.
PopFiles(it, n) ==
    LET r == iterators[it]
        hi == Min(r.pos + n, topology[r.dataset])
    IN  [k \in 1..(hi - r.pos) |-> <<r.dataset, r.pos + k>>]

PopEmpty(it, n) ==
    LET r == iterators[it]
    IN  Min(r.pos + n, topology[r.dataset]) = topology[r.dataset]

pop(it, n) ==
    iterators' = [iterators EXCEPT ![it].pos = @ + Len(PopFiles(it, n))]

\* ------------------------------------------------------------------- agent
SetAgent(a, r) == ag' = [ag EXCEPT ![a] = r]
Goto(a, p) == ag' = [ag EXCEPT ![a].pc = p]

\* main_loop: agent_get_task takes the next task of the group's queue, for an
\* agent whose cached version is the stored one.
agent_get_task(a) ==
    /\ ag[a].pc = "idle"
    /\ plugin_config_version[a] = get_plugin_config_version
    /\ \E t \in BagToSet(queue) :
          /\ queue' = queue (-) SetToBag({t})
          /\ SetAgent(a, [IdleAgent EXCEPT
                 !.pc = IF t.type = "SEARCH" THEN "search" ELSE "yara",
                 !.iterator = t.iterator])
    /\ UNCHANGED <<job, datasets_remaining, matches, topology, iterators,
                   scans, finish_log>>
    /\ UNCHANGED reload_vars
    /\ UNCHANGED yara_cache

\* The dispatcher's exception boundary (lines 255-258, 267-270): the handler
\* raised e; agent_finish_job, then fail_job(str(e)).
Raise(a, e) == SetAgent(a, [ag[a] EXCEPT !.pc = "fail_finish", !.error = e])

\* ---- __search_task
\* lines 68-73: get_job; a cancelled job returns, a new job generates subtasks.
\* job_status is the status of the snapshot the handler holds from then on.
search_get_job(a) ==
    /\ ag[a].pc = "search"
    /\ IF job.status = "cancelled"
       THEN SetAgent(a, IdleAgent)
       ELSE SetAgent(a, [ag[a] EXCEPT
                !.pc = IF job.status = "new" THEN "search_topology"
                       ELSE "search_next_dataset",
                !.job_status = job.status])
    /\ UNCHANGED <<job, datasets_remaining, matches, queue, topology,
                   iterators, scans, finish_log>>
    /\ UNCHANGED reload_vars
    /\ UNCHANGED yara_cache

\* lines 76-78: topology() returns the names of the datasets.
search_topology(a) ==
    /\ ag[a].pc = "search_topology"
    /\ SetAgent(a, [ag[a] EXCEPT !.pc = "search_init",
                                 !.datasets = [d \in DOMAIN topology |-> d]])
    /\ UNCHANGED <<job, datasets_remaining, matches, queue, topology,
                   iterators, scans, finish_log>>
    /\ UNCHANGED reload_vars
    /\ UNCHANGED yara_cache

\* lines 79-83: init_job_datasets with the datasets' names.
search_init_datasets(a) ==
    /\ ag[a].pc = "search_init"
    /\ init_job_datasets(ag[a].datasets)
    /\ Goto(a, "search_next_dataset")
    /\ UNCHANGED <<matches, queue, topology, iterators, scans, finish_log>>
    /\ UNCHANGED reload_vars
    /\ UNCHANGED yara_cache

\* lines 77-78: topology() returned an error object.
search_topology_error(a) ==
    /\ ag[a].pc = "search_topology"
    /\ Raise(a, "topology")
    /\ UNCHANGED <<job, datasets_remaining, matches, queue, topology,
                   iterators, scans, finish_log>>
    /\ UNCHANGED reload_vars
    /\ UNCHANGED yara_cache

\* lines 86-89: get_next_search_dataset; None returns.
search_next_dataset(a) ==
    /\ ag[a].pc = "search_next_dataset"
    /\ get_next_search_dataset
    /\ IF NextDataset = 0
       THEN SetAgent(a, IdleAgent)
       ELSE SetAgent(a, [ag[a] EXCEPT !.pc = "search_query",
                                      !.dataset = NextDataset])
    /\ UNCHANGED <<job, matches, queue, topology, iterators, scans,
                   finish_log>>
    /\ UNCHANGED reload_vars
    /\ UNCHANGED yara_cache

\* Mutant: the query is issued for the first dataset of the topology, not for
\* the dataset that was claimed.
search_query_first(a) ==
    /\ ag[a].pc = "search_query"
    /\ query(1)
    /\ SetAgent(a, [ag[a] EXCEPT !.pc = "search_update_files",
                                 !.file_count = topology[1],
                                 !.iterator = Len(iterators) + 1])
    /\ UNCHANGED <<job, datasets_remaining, matches, queue, topology,
                   scans, finish_log>>
    /\ UNCHANGED reload_vars
    /\ UNCHANGED yara_cache

\* lines 91-101: parse and combine the rules, query the backend: the backend
\* mints an iterator over the dataset's candidate files.
search_query(a) ==
    /\ ag[a].pc = "search_query"
    /\ query(ag[a].dataset)
    /\ SetAgent(a, [ag[a] EXCEPT !.pc = "search_update_files",
                                 !.file_count = topology[ag[a].dataset],
                                 !.iterator = Len(iterators) + 1])
    /\ UNCHANGED <<job, datasets_remaining, matches, queue, topology,
                   scans, finish_log>>
    /\ UNCHANGED reload_vars
    /\ UNCHANGED yara_cache

\* lines 91-97: parse_yara raised, or query() returned an error object.
search_query_error(a) ==
    /\ ag[a].pc = "search_query"
    /\ Raise(a, "query")
    /\ UNCHANGED <<job, datasets_remaining, matches, queue, topology,
                   iterators, scans, finish_log>>
    /\ UNCHANGED reload_vars
    /\ UNCHANGED yara_cache

\* line 103
search_update_files(a) ==
    /\ ag[a].pc = "search_update_files"
    /\ update_job_files(ag[a].file_count)
    /\ Goto(a, "search_start_job")
    /\ UNCHANGED <<datasets_remaining, matches, queue, topology, iterators,
                   scans, finish_log>>
    /\ UNCHANGED reload_vars
    /\ UNCHANGED yara_cache

\* line 104
search_start_job(a) ==
    /\ ag[a].pc = "search_start_job"
    /\ agent_start_job(ag[a].iterator)
    /\ Goto(a, "search_continue")
    /\ UNCHANGED <<datasets_remaining, matches, topology, iterators,
                   scans, finish_log>>
    /\ UNCHANGED reload_vars
    /\ UNCHANGED yara_cache

\* line 105
search_continue(a) ==
    /\ ag[a].pc = "search_continue"
    /\ agent_continue_search
    /\ SetAgent(a, IdleAgent)
    /\ UNCHANGED <<job, datasets_remaining, matches, topology, iterators,
                   scans, finish_log>>
    /\ UNCHANGED reload_vars
    /\ UNCHANGED yara_cache

\* ---- __yara_task
\* Mutant: the batch is not raised to MIN_BATCH_SIZE.
batch_size_no_floor(j) ==
    LET taken_files == j.files_processed + j.files_in_progress
        capped == Min(MAX_BATCH_SIZE, taken_files)
    IN  Min(capped, (j.total_files - taken_files) \div 4)

\* Mutant: the batch is not held to a quarter of the files that are left.
batch_size_no_taper(j) ==
    LET taken_files == j.files_processed + j.files_in_progress
        capped == Min(MAX_BATCH_SIZE, taken_files)
    IN  Max(capped, MIN_BATCH_SIZE)

\* lines 187-202: the adaptive batch size, from the job snapshot j.
batch_size(j) ==
    LET taken_files == j.files_processed + j.files_in_progress
        capped == Min(MAX_BATCH_SIZE, taken_files)
        tapered == Min(capped, (j.total_files - taken_files) \div 4)
    IN  Max(tapered, MIN_BATCH_SIZE)

\* Mutant: final_statuses lacks "done".
yara_drops_not_done(status) == status \in {"cancelled", "failed"}

\* lines 182-185: the statuses for which the task is dropped.
yara_drops(status) == status \in final_statuses

\* lines 183-204: get_job; a terminal job returns. Otherwise the batch size is
\* computed from the snapshot and the batch is popped from the iterator.
yara_get_job(a) ==
    /\ ag[a].pc = "yara"
    /\ IF yara_drops(job.status)
       THEN SetAgent(a, IdleAgent)
       ELSE SetAgent(a, [ag[a] EXCEPT !.pc = "yara_pop",
                                      !.batch = batch_size(job)])
    /\ UNCHANGED <<job, datasets_remaining, matches, queue, topology,
                   iterators, scans, finish_log>>
    /\ UNCHANGED reload_vars
    /\ UNCHANGED yara_cache

\* Mutant: the handler scans the popped list without looking whether it holds
\* any file.
AfterPop_unchecked(files) == "yara_execute"

\* The handler's position after the pop and the optional requeue (lines
\* 205-212): scan the files if there are any, else re-read the job.
AfterPop(files) == IF files # <<>> THEN "yara_execute" ELSE "yara_reread"

\* Mutant: the task is put back on the queue whatever the pop reported.
yara_pop_always_requeue(a) ==
    /\ ag[a].pc = "yara_pop"
    /\ LET it == ag[a].iterator
           n == ag[a].batch
           files == PopFiles(it, n)
           empty == PopEmpty(it, n)
       IN  /\ pop(it, n)
           /\ SetAgent(a, [ag[a] EXCEPT
                  !.pc = "yara_requeue",
                  !.files = files, !.iterator_empty = empty])
    /\ UNCHANGED <<job, datasets_remaining, matches, queue, topology,
                   scans, finish_log>>
    /\ UNCHANGED reload_vars
    /\ UNCHANGED yara_cache

\* Mutant: the task is never put back on the queue.
yara_pop_never_requeue(a) ==
    /\ ag[a].pc = "yara_pop"
    /\ LET it == ag[a].iterator
           n == ag[a].batch
           files == PopFiles(it, n)
           empty == PopEmpty(it, n)
       IN  /\ pop(it, n)
           /\ SetAgent(a, [ag[a] EXCEPT
                  !.pc = AfterPop(files),
                  !.files = files, !.iterator_empty = empty])
    /\ UNCHANGED <<job, datasets_remaining, matches, queue, topology,
                   scans, finish_log>>
    /\ UNCHANGED reload_vars
    /\ UNCHANGED yara_cache

\* line 204: pop(iterator, batch_size)
yara_pop(a) ==
    /\ ag[a].pc = "yara_pop"
    /\ LET it == ag[a].iterator
           n == ag[a].batch
           files == PopFiles(it, n)
           empty == PopEmpty(it, n)
       IN  /\ pop(it, n)
           /\ SetAgent(a, [ag[a] EXCEPT
                  !.pc = IF ~empty THEN "yara_requeue" ELSE AfterPop(files),
                  !.files = files, !.iterator_empty = empty])
    /\ UNCHANGED <<job, datasets_remaining, matches, queue, topology,
                   scans, finish_log>>
    /\ UNCHANGED reload_vars
    /\ UNCHANGED yara_cache

\* lines 205-207: the iterator is not empty, put the task back on the queue.
yara_requeue(a) ==
    /\ ag[a].pc = "yara_requeue"
    /\ agent_start_job(ag[a].iterator)
    /\ Goto(a, AfterPop(ag[a].files))
    /\ UNCHANGED <<datasets_remaining, matches, topology, iterators,
                   scans, finish_log>>
    /\ UNCHANGED reload_vars
    /\ UNCHANGED yara_cache

\* ---- __execute_yara
\* The handler is about to call job_start_work (line 158): the rule was just
\* compiled, or compile_yara found it in the agent's cache.
StartsWork(a) ==
    \/ ag[a].pc = "yara_start_work"
    \/ ag[a].pc = "yara_execute" /\ a \in yara_cache

\* line 156, compile_yara on a cache miss (lines 28-37): get_yara_by_job, then
\* the rule is compiled and cached.
execute_yara_compile(a) ==
    /\ ag[a].pc = "yara_execute"
    /\ a \notin yara_cache
    /\ yara_cache' = yara_cache \cup {a}
    /\ Goto(a, "yara_start_work")
    /\ UNCHANGED <<job, datasets_remaining, matches, queue, topology,
                   iterators, scans, finish_log>>
    /\ UNCHANGED reload_vars

\* Mutant: job_start_work is given the requested batch size, not len(files).
execute_yara_start_work_requested(a) ==
    /\ StartsWork(a)
    /\ job_start_work(ag[a].batch)
    /\ SetAgent(a, [ag[a] EXCEPT !.pc = "yara_scan", !.i = 1,
                                 !.num_matches = 0])
    /\ UNCHANGED <<datasets_remaining, matches, queue, topology, iterators,
                   scans, finish_log>>
    /\ UNCHANGED reload_vars
    /\ UNCHANGED yara_cache

\* Mutant: the loop over the batch starts at its second file.
execute_yara_start_work_skip_first(a) ==
    /\ StartsWork(a)
    /\ job_start_work(Len(ag[a].files))
    /\ SetAgent(a, [ag[a] EXCEPT !.pc = "yara_scan", !.i = 2,
                                 !.num_matches = 0])
    /\ UNCHANGED <<datasets_remaining, matches, queue, topology, iterators,
                   scans, finish_log>>
    /\ UNCHANGED reload_vars
    /\ UNCHANGED yara_cache

\* line 158: job_start_work(job, len(files)).
execute_yara_start_work(a) ==
    /\ StartsWork(a)
    /\ job_start_work(Len(ag[a].files))
    /\ SetAgent(a, [ag[a] EXCEPT !.pc = "yara_scan", !.i = 1,
                                 !.num_matches = 0])
    /\ UNCHANGED <<datasets_remaining, matches, queue, topology, iterators,
                   scans, finish_log>>
    /\ UNCHANGED reload_vars
    /\ UNCHANGED yara_cache

\* line 156: compile_yara raised on a cache miss (SyntaxError, or
\* get_yara_by_job failed); nothing is cached.
execute_yara_compile_error(a) ==
    /\ ag[a].pc = "yara_execute"
    /\ a \notin yara_cache
    /\ Raise(a, "compile")
    /\ UNCHANGED <<job, datasets_remaining, matches, queue, topology,
                   iterators, scans, finish_log>>
    /\ UNCHANGED reload_vars
    /\ UNCHANGED yara_cache

\* Mutant: the match counter is incremented before the match is attempted, so
\* a file on which the match raises is counted too.
execute_yara_scan_counts_errors(a) ==
    /\ ag[a].pc = "yara_scan"
    /\ ag[a].i <= Len(ag[a].files)
    /\ LET sample == ag[a].files[ag[a].i]
           hit == ~FileBroken(sample) /\ FileMatches(sample)
       IN  /\ scans' = [scans EXCEPT ![sample] = Append(@, a)]
           /\ IF hit THEN add_match(sample) ELSE UNCHANGED matches
           /\ SetAgent(a, [ag[a] EXCEPT
                  !.i = @ + 1,
                  !.num_matches = IF hit \/ FileBroken(sample) THEN @ + 1 ELSE @])
    /\ UNCHANGED <<job, datasets_remaining, queue, topology, iterators,
                   finish_log>>
    /\ UNCHANGED reload_vars
    /\ UNCHANGED yara_cache

\* lines 159-172: one iteration of the loop over the batch. A file on which
\* the match raises yara.Error or FileNotFoundError is logged and skipped; a
\* matching file is counted and its Match pushed (__update_metadata).
execute_yara_scan(a) ==
    /\ ag[a].pc = "yara_scan"
    /\ ag[a].i <= Len(ag[a].files)
    /\ LET sample == ag[a].files[ag[a].i]
           hit == ~FileBroken(sample) /\ FileMatches(sample)
       IN  /\ scans' = [scans EXCEPT ![sample] = Append(@, a)]
           /\ IF hit THEN add_match(sample) ELSE UNCHANGED matches
           /\ SetAgent(a, [ag[a] EXCEPT
                  !.i = @ + 1,
                  !.num_matches = IF hit THEN @ + 1 ELSE @])
    /\ UNCHANGED <<job, datasets_remaining, queue, topology, iterators,
                   finish_log>>
    /\ UNCHANGED reload_vars
    /\ UNCHANGED yara_cache

\* lines 159-166: an exception that is neither yara.Error nor
\* FileNotFoundError (add_match failing in the store) leaves the handler.
execute_yara_scan_error(a) ==
    /\ ag[a].pc = "yara_scan"
    /\ ag[a].i <= Len(ag[a].files)
    /\ FileMatches(ag[a].files[ag[a].i])
    /\ ~FileBroken(ag[a].files[ag[a].i])
    /\ scans' = [scans EXCEPT ![ag[a].files[ag[a].i]] = Append(@, a)]
    /\ Raise(a, "add_match")
    /\ UNCHANGED <<job, datasets_remaining, matches, queue, topology,
                   iterators, finish_log>>
    /\ UNCHANGED reload_vars
    /\ UNCHANGED yara_cache

\* line 174: job_update_work(job, len(files), num_matches)
execute_yara_update_work(a) ==
    /\ ag[a].pc = "yara_scan"
    /\ ag[a].i > Len(ag[a].files)
    /\ job_update_work(Len(ag[a].files), ag[a].num_matches)
    /\ Goto(a, "yara_reread")
    /\ UNCHANGED <<datasets_remaining, matches, queue, topology, iterators,
                   scans, finish_log>>
    /\ UNCHANGED reload_vars
    /\ UNCHANGED yara_cache

\* lines 212-213: the job is over when it is processing and every file is
\* processed.
job_is_over(j) == j.status = "processing" /\ j.files_processed = j.total_files

\* lines 212-213: re-read the job.
yara_reread(a) ==
    /\ ag[a].pc = "yara_reread"
    /\ IF job_is_over(job)
       THEN Goto(a, "yara_finish")
       ELSE SetAgent(a, IdleAgent)
    /\ UNCHANGED <<job, datasets_remaining, matches, queue, topology,
                   iterators, scans, finish_log>>
    /\ UNCHANGED reload_vars
    /\ UNCHANGED yara_cache

\* line 215
yara_finish(a) ==
    /\ ag[a].pc = "yara_finish"
    /\ agent_finish_job(a)
    /\ SetAgent(a, IdleAgent)
    /\ UNCHANGED <<datasets_remaining, matches, queue, topology, iterators,
                   scans>>
    /\ UNCHANGED reload_vars
    /\ UNCHANGED yara_cache

\* ---- __process_task, the except branches
\* lines 257, 269
fail_agent_finish_job(a) ==
    /\ ag[a].pc = "fail_finish"
    /\ agent_finish_job(a)
    /\ Goto(a, "fail_job")
    /\ UNCHANGED <<datasets_remaining, matches, queue, topology, iterators,
                   scans>>
    /\ UNCHANGED reload_vars
    /\ UNCHANGED yara_cache

\* Mutant: the dispatcher puts the failed task back on the queue.
fail_fail_job_retry(a) ==
    /\ ag[a].pc = "fail_job"
    /\ fail_job(ag[a].error)
    /\ queue' = queue (+) SetToBag({IF ag[a].iterator = 0 THEN SearchTask
                                     ELSE YaraTask(ag[a].iterator)})
    /\ SetAgent(a, IdleAgent)
    /\ UNCHANGED <<datasets_remaining, matches, topology, iterators,
                   scans, finish_log>>
    /\ UNCHANGED reload_vars
    /\ UNCHANGED yara_cache

\* lines 258, 270
fail_fail_job(a) ==
    /\ ag[a].pc = "fail_job"
    /\ fail_job(ag[a].error)
    /\ SetAgent(a, IdleAgent)
    /\ UNCHANGED <<datasets_remaining, matches, queue, topology, iterators,
                   scans, finish_log>>
    /\ UNCHANGED reload_vars
    /\ UNCHANGED yara_cache

\* ---- __process_task, the RELOAD branch
\* main_loop: agent_get_task returns RELOAD to an agent whose cached version
\* differs from the stored one.
agent_get_task_reload(a) ==
    /\ ag[a].pc = "idle"
    /\ plugin_config_version[a] # get_plugin_config_version
    /\ SetAgent(a, [IdleAgent EXCEPT !.pc = "reload"])
    /\ UNCHANGED <<job, datasets_remaining, matches, queue, topology,
                   iterators, scans, finish_log>>
    /\ UNCHANGED reload_vars
    /\ UNCHANGED yara_cache

\* The protocol anomaly of lines 231-242: a RELOAD handed to an agent whose
\* cached version is the stored one.
agent_get_task_spurious(a) ==
    /\ ag[a].pc = "idle"
    /\ plugin_config_version[a] = get_plugin_config_version
    /\ SetAgent(a, [IdleAgent EXCEPT !.pc = "reload"])
    /\ UNCHANGED <<job, datasets_remaining, matches, queue, topology,
                   iterators, scans, finish_log>>
    /\ UNCHANGED reload_vars
    /\ UNCHANGED yara_cache

\* lines 230-243: the versions are compared again; equal versions are logged
\* and the task returns.
reload_check(a) ==
    /\ ag[a].pc = "reload"
    /\ IF plugin_config_version[a] = get_plugin_config_version
       THEN SetAgent(a, IdleAgent)
       ELSE Goto(a, "reload_request")
    /\ UNCHANGED <<job, datasets_remaining, matches, queue, topology,
                   iterators, scans, finish_log>>
    /\ UNCHANGED reload_vars
    /\ UNCHANGED yara_cache

\* line 245: reload_configuration(self.plugin_config_version)
reload_request(a) ==
    /\ ag[a].pc = "reload_request"
    /\ reload_configuration(plugin_config_version[a])
    /\ Goto(a, "reload_load")
    /\ UNCHANGED <<job, datasets_remaining, matches, queue, topology,
                   iterators, scans, finish_log>>
    /\ UNCHANGED <<config_version, plugin_config_version, registrations>>
    /\ UNCHANGED yara_cache

\* The position after i - 1 of the NumPlugins plugin classes were loaded.
AfterPluginRead(i) ==
    IF i > NumPlugins THEN "reload_register" ELSE "reload_plugins"

\* Mutant: the plugins are loaded again and the cached version is kept.
reload_load_plugins_stale(a) ==
    /\ ag[a].pc = "reload_load"
    /\ SetAgent(a, [ag[a] EXCEPT !.pc = AfterPluginRead(1), !.i = 1])
    /\ UNCHANGED <<job, datasets_remaining, matches, queue, topology,
                   iterators, scans, finish_log>>
    /\ UNCHANGED reload_vars
    /\ UNCHANGED yara_cache

\* line 108: __load_plugins caches the stored version.
reload_load_plugins(a) ==
    /\ ag[a].pc = "reload_load"
    /\ plugin_config_version' =
          [plugin_config_version EXCEPT ![a] = get_plugin_config_version]
    /\ SetAgent(a, [ag[a] EXCEPT !.pc = AfterPluginRead(1), !.i = 1])
    /\ UNCHANGED <<job, datasets_remaining, matches, queue, topology,
                   iterators, scans, finish_log>>
    /\ UNCHANGED <<config_version, reload_requests, registrations>>
    /\ UNCHANGED yara_cache

\* lines 110-117: get_plugin_configuration for the next plugin class, from
\* which the plugin is built.
reload_plugin_configuration(a) ==
    /\ ag[a].pc = "reload_plugins"
    /\ SetAgent(a, [ag[a] EXCEPT !.pc = AfterPluginRead(ag[a].i + 1),
                                 !.i = @ + 1])
    /\ UNCHANGED <<job, datasets_remaining, matches, queue, topology,
                   iterators, scans, finish_log>>
    /\ UNCHANGED reload_vars
    /\ UNCHANGED yara_cache

\* lines 121-134: register_active_agent; the task is over.
reload_register(a) ==
    /\ ag[a].pc = "reload_register"
    /\ register_active_agent(a)
    /\ SetAgent(a, IdleAgent)
    /\ UNCHANGED <<job, datasets_remaining, matches, queue, topology,
                   iterators, scans, finish_log>>
    /\ UNCHANGED <<plugin_config_version, reload_requests>>
    /\ UNCHANGED yara_cache

\* ---- frontend: the plugin configuration is changed, the store publishes a
\* new version.
config_change ==
    /\ config_version < MaxVersion
    /\ config_version' = config_version + 1
    /\ UNCHANGED <<job, datasets_remaining, matches, queue, topology,
                   iterators, ag, scans, finish_log>>
    /\ UNCHANGED <<plugin_config_version, reload_requests, registrations>>
    /\ UNCHANGED yara_cache

\* ---- frontend: cancel a job that is not terminal.
cancel_job ==
    /\ job.status \notin final_statuses
    /\ job' = [job EXCEPT !.status = "cancelled"]
    /\ UNCHANGED <<datasets_remaining, matches, queue, topology, iterators,
                   ag, scans, finish_log>>
    /\ UNCHANGED reload_vars
    /\ UNCHANGED yara_cache

\* main_loop, line 279: every agent has run __initialize_agent: it cached the
\* stored version and registered once. Its compile_yara cache is empty.
InitAgents ==
    /\ config_version = 0
    /\ plugin_config_version = [a \in Agents |-> 0]
    /\ reload_requests = {}
    /\ registrations = [a \in Agents |-> 1]
    /\ yara_cache = {}

Init ==
    /\ topology \in Topologies
    /\ job = [status |-> "new", total_files |-> 0, files_processed |-> 0,
              files_in_progress |-> 0, num_matches |-> 0,
              active_agents |-> 0, error |-> ""]
    /\ datasets_remaining = <<>>
    /\ matches = <<>>
    /\ \E n \in 1..2 : queue = [t \in {SearchTask} |-> n]
    /\ iterators = <<>>
    /\ ag = [a \in Agents |-> IdleAgent]
    /\ scans = [f \in FilesOf(topology) |-> <<>>]
    /\ finish_log = <<>>
    /\ InitAgents

\* One step of agent a on a path where no handler raises.
AgentStep(a) ==
    \/ agent_get_task(a)
    \/ search_get_job(a)
    \/ search_topology(a)
    \/ search_init_datasets(a)
    \/ search_next_dataset(a)
    \/ search_query(a)
    \/ search_update_files(a)
    \/ search_start_job(a)
    \/ search_continue(a)
    \/ yara_get_job(a)
    \/ yara_pop(a)
    \/ yara_requeue(a)
    \/ execute_yara_compile(a)
    \/ execute_yara_start_work(a)
    \/ execute_yara_scan(a)
    \/ execute_yara_update_work(a)
    \/ yara_reread(a)
    \/ yara_finish(a)

\* A handler raises, and the dispatcher fails the job.
AgentFail(a) ==
    \/ search_topology_error(a)
    \/ search_query_error(a)
    \/ execute_yara_compile_error(a)
    \/ execute_yara_scan_error(a)
    \/ fail_agent_finish_job(a)
    \/ fail_fail_job(a)

Next ==
    \/ \E a \in Agents : AgentStep(a)
    \/ \E a \in Agents : AgentFail(a)
    \/ cancel_job

Spec == Init /\ [][Next]_vars

\* No handler raises and the frontend does not cancel.
NextNoFail == \E a \in Agents : AgentStep(a)

SpecNoFail == Init /\ [][NextNoFail]_vars

\* A single agent, one dataset, one SEARCH task, no cancellation, no errors.
InitHappy ==
    /\ Init
    /\ Len(topology) = 1
    /\ queue = SetToBag({SearchTask})

NextHappy == AgentStep(1)

SpecHappy == InitHappy /\ [][NextHappy]_vars /\ WF_vars(NextHappy)

\* A single agent drains one dataset of 1000 files: one SEARCH task, no
\* cancellation, no errors.
InitTrace ==
    /\ topology = <<1000>>
    /\ job = [status |-> "new", total_files |-> 0, files_processed |-> 0,
              files_in_progress |-> 0, num_matches |-> 0,
              active_agents |-> 0, error |-> ""]
    /\ datasets_remaining = <<>>
    /\ matches = <<>>
    /\ queue = SetToBag({SearchTask})
    /\ iterators = <<>>
    /\ ag = [a \in Agents |-> IdleAgent]
    /\ scans = [f \in FilesOf(topology) |-> <<>>]
    /\ finish_log = <<>>
    /\ InitAgents

SpecTrace == InitTrace /\ [][NextHappy]_vars

\* The job snapshots a YARA task may read: taken files up to MaxTaken, of
\* which none, half or all are processed, and a number of remaining files
\* whose quarter is small or around MAX_BATCH_SIZE.
Quarters ==
    (0..MaxQuarter)
        \cup {MAX_BATCH_SIZE - 1, MAX_BATCH_SIZE, MAX_BATCH_SIZE + 1}
Snapshot(taken, processed, remaining) ==
    [status |-> "processing", total_files |-> taken + remaining,
     files_processed |-> processed, files_in_progress |-> taken - processed,
     num_matches |-> 0, active_agents |-> 1, error |-> ""]
\* Agent 1 was handed the YARA task of a job in one of these snapshots.
InitBatch ==
    /\ \E taken \in 0..MaxTaken, q \in Quarters, r \in 0..3 :
          \E processed \in {0, taken \div 2, taken} :
              job = Snapshot(taken, processed, 4 * q + r)
    /\ topology = <<job.total_files>>
    /\ iterators = <<[dataset |-> 1,
                      pos |-> job.files_processed + job.files_in_progress]>>
    /\ datasets_remaining = <<>>
    /\ matches = <<>>
    /\ queue = EmptyBag
    /\ ag = [a \in Agents |->
               IF a = 1 THEN [IdleAgent EXCEPT !.pc = "yara", !.iterator = 1]
               ELSE IdleAgent]
    /\ scans = [f \in {} |-> <<>>]
    /\ finish_log = <<>>
    /\ InitAgents

NextBatch == yara_get_job(1)

SpecBatch == InitBatch /\ [][NextBatch]_vars

\* The reload protocol at work on a job of one small dataset, whose iterator
\* the first pop drains: no handler raises, the frontend changes the plugin
\* configuration up to MaxVersion times.
InitReload ==
    /\ Init
    /\ topology = <<SmallFiles>>
    /\ queue = SetToBag({SearchTask})

SmallJobStep(a) ==
    \/ agent_get_task(a)
    \/ search_get_job(a)
    \/ search_topology(a)
    \/ search_init_datasets(a)
    \/ search_next_dataset(a)
    \/ search_query(a)
    \/ search_update_files(a)
    \/ search_start_job(a)
    \/ search_continue(a)
    \/ yara_get_job(a)
    \/ yara_pop(a)
    \/ execute_yara_compile(a)
    \/ execute_yara_start_work(a)
    \/ execute_yara_scan(a)
    \/ execute_yara_update_work(a)
    \/ yara_reread(a)
    \/ yara_finish(a)

ReloadStep(a) ==
    \/ agent_get_task_reload(a)
    \/ agent_get_task_spurious(a)
    \/ reload_check(a)
    \/ reload_request(a)
    \/ reload_load_plugins(a)
    \/ reload_plugin_configuration(a)
    \/ reload_register(a)

NextReload ==
    \/ \E a \in Agents : SmallJobStep(a)
    \/ \E a \in Agents : ReloadStep(a)
    \/ config_change

SpecReload == InitReload /\ [][NextReload]_vars

\* ------------------------------------------------------------------ claims
TotalCandidates == Cardinality(FilesOf(topology))
Quiescent == queue = EmptyBag /\ \A a \in Agents : ag[a].pc = "idle"
Queried(d) == {it \in DOMAIN iterators : iterators[it].dataset = d}
DoneBy == SelectSeq(finish_log, LAMBDA r : r.flipped)
MatchingFiles == {f \in FilesOf(topology) : FileMatches(f) /\ ~FileBroken(f)}
Range(q) == {q[k] : k \in DOMAIN q}

\* C1: in every reachable state 0 <= files_processed <= total_files and
\* files_processed + files_in_progress <= total_files.
C1_FilesBounded ==
    /\ 0 <= job.files_processed
    /\ job.files_processed <= job.total_files
    /\ job.files_processed + job.files_in_progress <= job.total_files

\* Two agents at work on one job: one batch processed, another in progress,
\* and every file of the job taken.
C1_Witness ==
    /\ job.files_processed > 0
    /\ job.files_in_progress > 0
    /\ job.files_processed + job.files_in_progress = job.total_files

\* C2: once the job's status is terminal it never changes again.
C2_TerminalAbsorbs ==
    [][job.status \in final_statuses => job'.status = job.status]_vars

\* C3: for a group of several datasets, with no failure and no cancellation,
\* the status becomes done only after every dataset has been claimed and
\* queried and every candidate file processed, and the job ends done with
\* total_files = files_processed = the sum of the datasets' file counts.
C3_DoneOnlyWhenComplete ==
    Len(topology) > 1 =>
        /\ job.status = "done" =>
              /\ \A d \in DOMAIN topology : Queried(d) # {}
              /\ job.total_files = TotalCandidates
              /\ job.files_processed = TotalCandidates
        /\ Quiescent =>
              /\ job.status = "done"
              /\ job.total_files = TotalCandidates
              /\ job.files_processed = TotalCandidates

\* C4: the transition processing -> done happens at most once per job, and
\* one agent_finish_job call (one agent) performs it.
C4_DoneOnce == Len(DoneBy) <= 1

\* Two agents both called agent_finish_job at the end of their YARA tasks,
\* and one of the calls flipped the job to done.
C4_Witness ==
    /\ Len(DoneBy) = 1
    /\ \E k, l \in DOMAIN finish_log : finish_log[k].agent # finish_log[l].agent
    /\ job.error = ""
    /\ \A a \in Agents : ag[a].pc \notin {"fail_finish", "fail_job"}

\* C5: single agent, one dataset of N files of which k match, no cancellation
\* and no errors: the run ends with status done, total_files = N,
\* files_processed = N, num_matches = k and a Match for exactly the k files.
C5_HappyPathDone ==
    Quiescent =>
        /\ job.status = "done"
        /\ job.total_files = TotalCandidates
        /\ job.files_processed = TotalCandidates
        /\ job.num_matches = Cardinality(MatchingFiles)
        /\ Range(matches) = MatchingFiles
        /\ Len(matches) = Cardinality(MatchingFiles)

\* C6: agents draining one iterator concurrently scan disjoint batches (no
\* file is scanned twice), and when the job of a single dataset is done
\* every candidate file was scanned exactly once, the number of files
\* scanned equals total_files, and files_in_progress is back to 0.
C6_DisjointCover ==
    /\ \A f \in FilesOf(topology) : Len(scans[f]) <= 1
    /\ (Len(topology) = 1 /\ job.status = "done") =>
          /\ \A f \in FilesOf(topology) : Len(scans[f]) = 1
          /\ job.total_files = TotalCandidates
          /\ job.files_in_progress = 0

\* The job is done and each of two agents scanned a part of the iterator.
C6_Witness ==
    /\ Len(topology) = 1
    /\ job.status = "done"
    /\ \E f, g \in FilesOf(topology) :
          /\ scans[f] # <<>> /\ scans[g] # <<>>
          /\ scans[f] # scans[g]

\* C7: once the job's status is terminal no Match is appended.
C7_NoMatchOnceTerminal ==
    [][job.status \in final_statuses => matches' = matches]_vars

\* An agent in the middle of a batch found a match after the job became
\* terminal and the Match was not recorded.
C7_Witness ==
    /\ job.status \in final_statuses
    /\ \E a \in Agents :
          /\ ag[a].pc = "yara_scan"
          /\ ag[a].num_matches >
                Cardinality({k \in DOMAIN matches : matches[k] \in Range(ag[a].files)})

\* C8: when a handler raises, the dispatcher calls agent_finish_job and then
\* fail_job with the error; the job is then failed, the dispatcher leaves the
\* queue alone (no retry), and the agent is back at fetching its next task.
C8_DispatcherFailsJob ==
    [][\A a \in Agents :
        /\ (ag[a].pc # "fail_finish" /\ ag'[a].pc = "fail_finish") =>
              /\ ag'[a].error # ""
              /\ queue' = queue
        /\ (ag[a].pc = "fail_finish" /\ ag'[a] # ag[a]) =>
              /\ ag'[a].pc = "fail_job"
              /\ Len(finish_log') = Len(finish_log) + 1
              /\ finish_log'[Len(finish_log')].agent = a
              /\ queue' = queue
        /\ (ag[a].pc = "fail_job" /\ ag'[a] # ag[a]) =>
              /\ job'.status = "failed"
              /\ job'.error = ag[a].error
              /\ queue' = queue
              /\ ag'[a] = IdleAgent
    ]_vars

\* The job was failed by the dispatcher and an agent is running a next task.
C8_Witness ==
    /\ job.status = "failed"
    /\ job.error # ""
    /\ \E a \in Agents : ag[a].pc \in {"search", "yara"}
    /\ \A a \in Agents : ag[a].pc \notin {"fail_finish", "fail_job"}

\* C9: with the SEARCH task enqueued twice, each dataset is still claimed and
\* queried at most once, total_files never exceeds the sum of the datasets'
\* file counts, and a run that is neither cancelled nor failed ends with the
\* same total_files as with a single SEARCH task, the sum of the file counts.
C9_DoubleSearchSameTotal ==
    /\ \A d \in DOMAIN topology : Cardinality(Queried(d)) <= 1
    /\ job.total_files <= TotalCandidates
    /\ Quiescent => job.total_files = TotalCandidates

\* Two agents took the two SEARCH tasks and both read status = new; one has
\* initialised, claimed and queried, the other is still to initialise.
C9_Witness ==
    /\ \E a \in Agents : ag[a].pc \in {"search_topology", "search_init"}
    /\ job.status = "processing"
    /\ Len(iterators) >= 1

\* C10: a YARA task delivered for a terminal job is a no-op: no pop, no
\* requeue, no counter change, no Match, no agent_finish_job.
C10_TerminalYaraNoOp ==
    [][\A a \in Agents :
        (ag[a].pc = "yara" /\ job.status \in final_statuses /\ ag'[a] # ag[a]) =>
            /\ ag'[a] = IdleAgent
            /\ UNCHANGED <<job, datasets_remaining, matches, queue, iterators,
                           scans, finish_log>>
    ]_vars

\* A YARA task is delivered for a terminal job whose iterator still has files.
C10_Witness ==
    \E a \in Agents :
        /\ ag[a].pc = "yara"
        /\ job.status \in final_statuses
        /\ iterators[ag[a].iterator].pos
              < topology[iterators[ag[a].iterator].dataset]

\* The positions of an agent inside a YARA task, the dispatcher's except
\* branch included.
YaraPcs ==
    {"yara", "yara_pop", "yara_requeue", "yara_execute", "yara_start_work",
     "yara_scan",
     "yara_reread", "yara_finish", "fail_finish", "fail_job"}
UnbrokenMatches(files) ==
    {k \in DOMAIN files : FileMatches(files[k]) /\ ~FileBroken(files[k])}

\* C12: for a job whose only dataset has no candidate file, no YARA task ever
\* executes a scan (no job_start_work, no rule matching, no job_update_work:
\* the counters stay 0) and the job ends done.
C12_EmptyDatasetDone ==
    topology = <<0>> =>
        /\ \A a \in Agents :
              ag[a].pc \notin {"yara_execute", "yara_start_work", "yara_scan"}
        /\ job.files_processed = 0
        /\ job.files_in_progress = 0
        /\ job.num_matches = 0
        /\ Quiescent => job.status = "done"

\* The job of one empty dataset is done, its YARA task ran and finished it.
C12_Witness ==
    /\ topology = <<0>>
    /\ job.status = "done"
    /\ Len(iterators) = 1
    /\ Len(finish_log) = 1
    /\ Quiescent

\* C13: num_matches <= files_processed in every reachable state; a file on
\* which the match raises yara.Error or FileNotFoundError is skipped (no
\* Match, the loop goes on), is not counted in num_matches, and is counted in
\* files_processed by the batch's job_update_work.
C13_BrokenFileCounted ==
    [][/\ job'.num_matches <= job'.files_processed
       /\ \A a \in Agents :
            /\ (/\ ag[a].pc = "yara_scan" /\ ag'[a].pc = "yara_scan"
                /\ ag'[a] # ag[a]
                /\ FileBroken(ag[a].files[ag[a].i])) =>
                  /\ ag'[a].i = ag[a].i + 1
                  /\ ag'[a].num_matches = ag[a].num_matches
                  /\ matches' = matches
            /\ (ag[a].pc = "yara_scan" /\ ag'[a].pc = "yara_reread") =>
                  /\ job'.files_processed
                        = job.files_processed + Len(ag[a].files)
                  /\ job'.num_matches
                        = job.num_matches
                            + Cardinality(UnbrokenMatches(ag[a].files))
    ]_vars

\* A batch that held a file on which the match raises, and matching files,
\* was scanned to its end and its job_update_work applied.
C13_Witness ==
    \E a \in Agents :
        /\ ag[a].pc = "yara_reread"
        /\ \E k \in DOMAIN ag[a].files : FileBroken(ag[a].files[k])
        /\ job.files_processed >= Len(ag[a].files)
        /\ job.num_matches > 0
        /\ job.num_matches < job.files_processed

\* C16: for a job of a single dataset with fewer than MIN_BATCH_SIZE files,
\* the first YARA task pops every file of the job, the YARA task is not
\* enqueued again, and that single scan leaves files_processed = total_files
\* and completes the job.
C16_SmallJobSingleBatch ==
    (Len(topology) = 1 /\ topology[1] < MIN_BATCH_SIZE) =>
        /\ \A a \in Agents :
              /\ ag[a].pc # "yara_requeue"
              /\ ag[a].pc \in {"yara_execute", "yara_start_work",
                                "yara_scan"} =>
                    /\ Len(ag[a].files) = topology[1]
                    /\ ag[a].iterator_empty
        /\ job.active_agents <= 1
        /\ job.files_processed \in {0, topology[1]}
        /\ job.files_processed > 0 => job.files_processed = job.total_files
        /\ Quiescent =>
              /\ job.status = "done"
              /\ job.files_processed = job.total_files
              /\ job.total_files = topology[1]

\* The job of one dataset of MIN_BATCH_SIZE - 1 files is done after one scan
\* of all its files.
C16_Witness ==
    /\ topology = <<MIN_BATCH_SIZE - 1>>
    /\ job.status = "done"
    /\ job.files_processed = topology[1]
    /\ \A f \in FilesOf(topology) : Len(scans[f]) = 1
    /\ Quiescent

\* C17: when the pop leaves the iterator non-empty, the follow-up YARA task
\* of the same iterator is enqueued before job_start_work and before any file
\* of the batch is scanned; so while an agent scans a batch of an iterator
\* that still has files and the job is not terminal, the next batch is on the
\* queue or in the hands of another agent.
C17_RequeueBeforeScan ==
    [][\A a \in Agents :
        /\ (/\ ag'[a].pc = "yara_execute" /\ ag[a].pc # "yara_execute"
            /\ ~ag'[a].iterator_empty) =>
              /\ ag[a].pc = "yara_requeue"
              /\ queue' = queue (+) SetToBag({YaraTask(ag[a].iterator)})
              /\ job'.files_in_progress = job.files_in_progress
              /\ \A k \in DOMAIN ag[a].files : scans'[ag[a].files[k]] = <<>>
        /\ (/\ ag[a].pc \in {"yara_execute", "yara_start_work", "yara_scan"}
            /\ job.status \notin final_statuses
            /\ iterators[ag[a].iterator].pos
                  < topology[iterators[ag[a].iterator].dataset]) =>
              \/ BagIn(YaraTask(ag[a].iterator), queue)
              \/ \E b \in Agents \ {a} :
                    /\ ag[b].iterator = ag[a].iterator
                    /\ ag[b].pc \in {"yara", "yara_pop", "yara_requeue"}
    ]_vars

\* Two agents scan batches of the same iterator at the same time.
C17_Witness ==
    \E a, b \in Agents :
        /\ a # b
        /\ ag[a].pc = "yara_scan" /\ ag[b].pc = "yara_scan"
        /\ ag[a].iterator = ag[b].iterator
        /\ ag[a].i <= Len(ag[a].files) /\ ag[b].i <= Len(ag[b].files)

\* C19: every job_start_work(job, n) is matched by a job_update_work(job, n, _)
\* on every path out of the YARA handler, so whenever no agent is inside a
\* YARA task files_in_progress is 0.
C19_StartWorkMatched ==
    (\A a \in Agents : ag[a].pc \notin YaraPcs) => job.files_in_progress = 0

\* The positions of an agent inside a SEARCH task after its get_job.
SearchPcs ==
    {"search_topology", "search_init", "search_next_dataset", "search_query",
     "search_update_files", "search_start_job", "search_continue"}
\* The positions of a YARA handler that holds a popped batch.
BatchPcs ==
    {"yara_requeue", "yara_execute", "yara_start_work", "yara_scan",
     "yara_reread"}
HoldsBatch(a) == ag[a].pc \in BatchPcs /\ ag[a].files # <<>>
\* The handler has yet to scan a file of its batch.
ScanUnfinished(a) ==
    \/ ag[a].pc \in {"yara_requeue", "yara_execute", "yara_start_work"}
    \/ ag[a].pc = "yara_scan" /\ ag[a].i <= Len(ag[a].files)

\* C11: when the job is cancelled after an agent popped a batch and before it
\* finished scanning it, the agent still scans every popped file and applies
\* job_update_work (files_processed grows and files_in_progress drops by the
\* batch size), no Match of that batch is recorded, the status stays
\* cancelled and the agent does not call agent_finish_job.
C11_CancelledBatchNoMatch ==
    [][\A a \in Agents :
        (job.status = "cancelled" /\ HoldsBatch(a) /\ ag'[a] # ag[a]) =>
            /\ job'.status = "cancelled"
            /\ finish_log' = finish_log
            /\ ag'[a].pc \notin {"yara_finish", "fail_finish"}
            /\ ScanUnfinished(a) =>
                  /\ Range(ag[a].files) \cap Range(matches) = {}
                  /\ Range(ag[a].files) \cap Range(matches') = {}
            /\ ag[a].pc \in {"yara_execute", "yara_start_work"} =>
                  \/ ag'[a].pc = "yara_start_work" /\ job' = job
                  \/ ag'[a].pc = "yara_scan" /\ ag'[a].i = 1
            /\ (ag[a].pc = "yara_scan" /\ ag[a].i <= Len(ag[a].files)) =>
                  /\ a \in Range(scans'[ag[a].files[ag[a].i]])
                  /\ ag'[a].pc = "yara_scan"
                  /\ ag'[a].i = ag[a].i + 1
            /\ (ag[a].pc = "yara_scan" /\ ag[a].i > Len(ag[a].files)) =>
                  /\ \A k \in DOMAIN ag[a].files :
                        a \in Range(scans[ag[a].files[k]])
                  /\ job'.files_processed
                        = job.files_processed + Len(ag[a].files)
                  /\ job'.files_in_progress
                        = job.files_in_progress - Len(ag[a].files)
                  /\ ag'[a].pc = "yara_reread"
            /\ ag[a].pc = "yara_reread" => ag'[a] = IdleAgent
    ]_vars

\* C20: a SEARCH task that starts when the job's status is already terminal
\* (cancelled, failed or done) has no effect: it claims no dataset, issues no
\* backend query, does not change total_files and enqueues neither a YARA nor
\* a SEARCH task.
C20_TerminalSearchNoOp ==
    [][\A a \in Agents :
        /\ (/\ ag[a].pc = "search" /\ job.status = "cancelled"
            /\ ag'[a] # ag[a]) =>
              /\ ag'[a] = IdleAgent
              /\ UNCHANGED <<job, datasets_remaining, matches, queue,
                             iterators, scans, finish_log>>
        /\ (/\ ag[a].pc \in SearchPcs /\ ag[a].job_status \in final_statuses
            /\ ag'[a] # ag[a]) =>
              /\ datasets_remaining' = datasets_remaining
              /\ iterators' = iterators
              /\ job'.total_files = job.total_files
              /\ queue' = queue
    ]_vars

\* The sum of the first k elements of a sequence of numbers.
RECURSIVE SumTo(_, _)
SumTo(q, k) == IF k = 0 THEN 0 ELSE q[k] + SumTo(q, k - 1)

\* The sizes of the successive batches requested from one iterator are those
\* of q: the k-th YARA task, which finds the iterator where the first k-1
\* batches left it, asks pop for q[k] files, the size computed from the job
\* snapshot it read.
BatchesAre(q) ==
    \A a \in Agents :
        ag[a].pc = "yara_pop" =>
            /\ ag[a].batch = batch_size(job)
            /\ \A k \in DOMAIN q :
                  iterators[ag[a].iterator].pos = SumTo(q, k - 1) =>
                      ag[a].batch = q[k]

ClaimedTrace == <<10, 10, 20, 40, 80, 160, 320, 360>>
BatchTrace ==
    <<10, 10, 20, 40, 80, 160, 170, 127, 95, 72, 54, 40, 30, 23, 17, 13,
      10, 10, 10, 10>>

\* C14 (as stated): for a single agent draining one dataset of 1000 files the
\* successive batch sizes requested are 10, 10, 20, 40, 80, 160, 320, 360,
\* each computed from the job snapshot read at the start of the task.
C14_ClaimedBatchTrace == BatchesAre(ClaimedTrace)

\* C14 (amended): for a single agent draining one dataset of 1000 files the
\* successive batch sizes requested are 10, 10, 20, 40, 80, 160, 170, 127, 95,
\* 72, 54, 40, 30, 23, 17, 13, 10, 10, 10, 10, each computed from the job
\* snapshot read at the start of the task, and there is no other YARA task.
C14_BatchTrace ==
    /\ BatchesAre(BatchTrace)
    /\ \A a \in Agents :
          ag[a].pc = "yara_pop" =>
              \E k \in DOMAIN BatchTrace :
                  iterators[ag[a].iterator].pos = SumTo(BatchTrace, k - 1)

\* The last YARA task of the trace is about to pop: 991 files are processed.
C14_Witness ==
    \E a \in Agents :
        /\ ag[a].pc = "yara_pop"
        /\ job.total_files = 1000
        /\ job.files_processed = SumTo(BatchTrace, Len(BatchTrace) - 1)
        /\ iterators[ag[a].iterator].pos = job.files_processed

\* C15: for every job snapshot with 0 <= taken <= total_files, the batch
\* size passed to pop is max(10, min(500, taken, (total_files - taken) div 4));
\* hence 10 <= batch <= 500, and the batch exceeds one quarter of the
\* remaining files only when it equals the floor of 10.
C15_BatchFormula ==
    \A a \in Agents :
        ag[a].pc = "yara_pop" =>
            LET taken == job.files_processed + job.files_in_progress
                remaining == job.total_files - taken
                batch == ag[a].batch
            IN  /\ 0 <= taken /\ taken <= job.total_files
                /\ batch = Max(10, Min(500, Min(taken, remaining \div 4)))
                /\ 10 <= batch /\ batch <= 500
                /\ 4 * batch > remaining => batch = 10

\* A snapshot for which the batch is the cap of 500, and one for which the
\* floor of 10 exceeds the quarter of the remaining files.
C15_Witness ==
    \E a \in Agents :
        /\ ag[a].pc = "yara_pop"
        /\ \/ ag[a].batch = MAX_BATCH_SIZE
                 /\ job.files_processed + job.files_in_progress > MAX_BATCH_SIZE
           \/ ag[a].batch = MIN_BATCH_SIZE
                 /\ job.files_processed + job.files_in_progress > MIN_BATCH_SIZE
                 /\ job.total_files - job.files_processed
                        - job.files_in_progress < MIN_BATCH_SIZE

\* C18 (as stated): after an agent has processed a RELOAD task whose stored
\* version differed from its cached one (reload_configuration, plugin reload,
\* re-registration), its cached version equals the stored version; a RELOAD
\* that arrives while the versions are equal changes nothing and the agent
\* is back at fetching its next task.
C18_ReloadedIsCurrent ==
    [][\A a \in Agents :
        /\ (ag[a].pc = "reload_register" /\ ag'[a].pc = "idle") =>
              plugin_config_version'[a] = config_version'
        /\ (/\ ag[a].pc = "reload" /\ ag'[a] # ag[a]
            /\ plugin_config_version[a] = config_version) =>
              /\ ag'[a] = IdleAgent
              /\ UNCHANGED reload_vars
    ]_vars

\* C18 (amended): an agent that processes a RELOAD task whose stored version
\* differs from its cached one calls reload_configuration with its cached
\* version, then caches the version the store holds when it reloads its
\* plugins, then re-registers, which changes neither version; so after the
\* task its cached version is the stored one unless the stored version was
\* changed again after that read, and agent_get_task hands it real work only
\* while the two are equal. A RELOAD that arrives while the versions are
\* equal changes nothing (no reload_configuration, no plugin reload, no
\* re-registration) and the agent is back at fetching its next task.
C18_ReloadCatchesUp ==
    [][\A a \in Agents :
        /\ plugin_config_version'[a] <= config_version'
        /\ (/\ ag[a].pc = "reload" /\ ag'[a] # ag[a]
            /\ plugin_config_version[a] # config_version) =>
              /\ ag'[a].pc = "reload_request"
              /\ UNCHANGED reload_vars
        /\ (ag[a].pc = "reload_request" /\ ag'[a] # ag[a]) =>
              /\ plugin_config_version[a] \in reload_requests'
              /\ UNCHANGED <<config_version, plugin_config_version,
                             registrations>>
              /\ ag'[a].pc = "reload_load"
        /\ (ag[a].pc = "reload_load" /\ ag'[a] # ag[a]) =>
              /\ plugin_config_version'[a] = config_version
              /\ config_version' = config_version
              /\ ag'[a].pc = AfterPluginRead(1)
        /\ (ag[a].pc = "reload_plugins" /\ ag'[a] # ag[a]) =>
              /\ UNCHANGED reload_vars
              /\ ag'[a].pc \in {"reload_plugins", "reload_register"}
        /\ (ag[a].pc = "reload_register" /\ ag'[a] # ag[a]) =>
              /\ registrations'[a] = registrations[a] + 1
              /\ UNCHANGED <<config_version, plugin_config_version>>
              /\ ag'[a] = IdleAgent
        /\ (ag[a].pc = "idle" /\ ag'[a].pc \in {"search", "yara"}) =>
              plugin_config_version[a] = config_version
        /\ (/\ ag[a].pc = "reload" /\ ag'[a] # ag[a]
            /\ plugin_config_version[a] = config_version) =>
              /\ ag'[a] = IdleAgent
              /\ UNCHANGED reload_vars
    ]_vars

\* An agent reloaded for a new version, re-registered, and its next
\* agent_get_task handed it a task of the job.
C18_Witness ==
    \E a \in Agents :
        /\ registrations[a] > 1
        /\ reload_requests # {}
        /\ config_version > 0
        /\ plugin_config_version[a] = config_version
        /\ ag[a].pc \in {"search", "yara"}

====
